---- MODULE Spec2Model ----
(***************************************************************************)
(* A model of cvdata/openimages.py: the OpenImages acquisition pipeline.   *)
(* download_dataset resolves class labels to codes, creates the per-class  *)
(* directories, and for each split fetches the bounding-box table, filters *)
(* and groups it, downloads the images of each class with a thread pool    *)
(* and builds the annotations of each class with a process pool.           *)
(*                                                                         *)
(* Strings of the program are strings here, except image IDs, which are    *)
(* small naturals so that pandas' sorted group keys have an order.         *)
(* Normalized coordinates are the numerators of fractions over Den, a      *)
(* power of two, so the float products of to_pascal are exact.             *)
(***************************************************************************)
EXTENDS Integers, Sequences, FiniteSets, TLC

VARIABLES
    class_labels,       \* download_dataset argument: the requested labels
    annotation_format,  \* download_dataset argument
    pc,                 \* position of the main thread in download_dataset
    raised,             \* the exception that ended the run, "none" if none
    df_classes,         \* class_label_codes: the class description table
    label_codes,        \* download_dataset: dict label.lower() -> code
    dirs,               \* directories that exist under dest_dir
    exclusion_ids,      \* download_dataset: None or the set of excluded IDs
    split_idx,          \* index of the current split_section
    class_idx,          \* index of the current class_label in label_codes
    response,           \* bounding_boxes: the last HTTP response
    label_bbox_groups,  \* download_dataset: dict label -> groups
    tasks,              \* the futures of the executor that is open, if any
    next_result,        \* index of the next future whose result map() yields
    image_files,        \* files <class>/images/<id>.jpg, by path
    annotation_files,   \* files <class>/<format>/<id>.xml, by path
    fetches,            \* number of HTTP fetches made, per URL
    stages              \* history: the (stage, split, class) pools opened

vars == << class_labels, annotation_format, pc, raised, df_classes, label_codes,
           dirs, exclusion_ids, split_idx, class_idx, response,
           label_bbox_groups, tasks, next_result, image_files,
           annotation_files, fetches, stages >>

----------------------------------------------------------------------------
(* Bounds of the model *)

MaxLabels == 2      \* longest requested class_labels list
MaxRows == 2        \* most rows in the class description table
MaxRecs == 2        \* most rows in a bounding-box table
MaxSize == 2        \* largest image width and height, besides 100

(* The strings the model draws labels and codes from.  "Dog" and "dog"     *)
(* differ only in case; "Fox" is in no table.                              *)
Labels == {"Dog", "dog", "Cat"}
RequestLabels == Labels \cup {"Fox"}
Codes == {"/m/0bt9lr", "/m/01yrx"}
ImageIDs == {1, 2}

(* str.lower() on the labels of the model *)
Lower(s) ==
    CASE s = "Dog" -> "dog"
      [] s = "Cat" -> "cat"
      [] s = "Fox" -> "fox"
      [] OTHER -> s

(* All sequences over S of length at most n *)
SeqsUpTo(S, n) == UNION {[1..k -> S] : k \in 0..n}

----------------------------------------------------------------------------
(* Python dict with insertion order: a sequence of <<key, value>> pairs *)

DictHas(d, k) == \E i \in DOMAIN d : d[i][1] = k

DictGet(d, k) == d[CHOOSE i \in DOMAIN d : d[i][1] = k][2]

DictKeys(d) == [i \in DOMAIN d |-> d[i][1]]

(* d[k] = v: an existing key keeps its position and takes the new value *)
DictSet(d, k, v) ==
    IF DictHas(d, k)
    THEN [i \in DOMAIN d |-> IF d[i][1] = k THEN <<k, v>> ELSE d[i]]
    ELSE Append(d, <<k, v>>)

----------------------------------------------------------------------------
(* class_label_codes *)

(* df_classes.loc[df_classes[1] == class_label].values: rows are <<code, label>> *)
LabelRows(df, class_label) == SelectSeq(df, LAMBDA row : row[2] = class_label)

(* Mutant of LabelLoop: a label with no row is skipped *)
RECURSIVE LabelLoopSkip(_, _, _)
LabelLoopSkip(df, labels, labels_to_codes) ==
    IF labels = <<>>
    THEN [raised |-> "none", value |-> labels_to_codes]
    ELSE LET rows == LabelRows(df, Head(labels))
         IN  IF rows = <<>>
             THEN LabelLoopSkip(df, Tail(labels), labels_to_codes)
             ELSE LabelLoopSkip(df, Tail(labels),
                                DictSet(labels_to_codes, Lower(Head(labels)), rows[1][1]))

(* The loop over class_labels; .values[0] of no rows raises IndexError and  *)
(* the function returns nothing.                                           *)
RECURSIVE LabelLoop(_, _, _)
LabelLoop(df, labels, labels_to_codes) ==
    IF labels = <<>>
    THEN [raised |-> "none", value |-> labels_to_codes]
    ELSE LET rows == LabelRows(df, Head(labels))
         IN  IF rows = <<>>
             THEN [raised |-> "IndexError", value |-> <<>>]
             ELSE LabelLoop(df, Tail(labels),
                            DictSet(labels_to_codes, Lower(Head(labels)), rows[1][1]))

class_label_codes(df, labels) == LabelLoop(df, labels, <<>>)

ClassesUrl == "class-descriptions-boxable.csv"

(* download_dataset line 71: one fetch of the table, then the lookup *)
ClassLabelCodes(Tables) ==
    /\ pc = "class_label_codes"
    /\ \E df \in Tables :
         LET r == class_label_codes(df, class_labels)
         IN  /\ df_classes' = df
             /\ fetches' = [fetches EXCEPT ![ClassesUrl] = @ + 1]
             /\ IF r.raised = "none"
                THEN /\ label_codes' = r.value
                     /\ pc' = "makedirs"
                     /\ class_idx' = 1
                     /\ UNCHANGED raised
                ELSE /\ raised' = r.raised
                     /\ pc' = "raised"
                     /\ UNCHANGED << label_codes, class_idx >>
    /\ UNCHANGED << class_labels, annotation_format, dirs, exclusion_ids,
                    split_idx, response, label_bbox_groups, tasks, next_result,
                    image_files, annotation_files, stages >>

----------------------------------------------------------------------------
(* download_dataset: directories and exclusions *)

Splits == << "train", "validation", "test" >>

(* lines 75-85: one iteration of the loop over label_codes.keys();          *)
(* os.makedirs(exist_ok=True) of images_dir and annotations_dir            *)
MakeDirs ==
    /\ pc = "makedirs"
    /\ class_idx <= Len(label_codes)
    /\ LET class_label == DictKeys(label_codes)[class_idx]
       IN  dirs' = dirs \cup { <<class_label, "images">>,
                               <<class_label, annotation_format>> }
    /\ class_idx' = class_idx + 1
    /\ pc' = IF class_idx = Len(label_codes) THEN "exclusions" ELSE "makedirs"
    /\ UNCHANGED << class_labels, annotation_format, raised, df_classes,
                    label_codes, exclusion_ids, split_idx, response,
                    label_bbox_groups, tasks, next_result, image_files,
                    annotation_files, fetches, stages >>

(* exclusion_ids is None, or the set of the lines of the exclusions file *)
None == [present |-> FALSE, ids |-> {}]
SetOf(ids) == [present |-> TRUE, ids |-> ids]

(* lines 88-95 *)
ReadExclusions(Exclusions) ==
    /\ pc = "exclusions"
    /\ \E e \in Exclusions : exclusion_ids' = e
    /\ split_idx' = 1
    /\ pc' = "bounding_boxes"
    /\ UNCHANGED << class_labels, annotation_format, raised, df_classes,
                    label_codes, dirs, class_idx, response, label_bbox_groups,
                    tasks, next_result, image_files, annotation_files,
                    fetches, stages >>

----------------------------------------------------------------------------
(* bounding_boxes *)

RejectFields ==
    << "IsOccluded", "IsTruncated", "IsGroupOf", "IsDepiction", "IsInside" >>

unnecessary_columns ==
    { "IsOccluded", "IsTruncated", "IsGroupOf", "IsDepiction", "IsInside",
      "Source", "Confidence" }

(* pd.read_csv: the rows of the table, each with its index label *)
ReadCsv(content) ==
    [i \in DOMAIN content |->
        [f \in DOMAIN content[i] \cup {"index"} |->
            IF f = "index" THEN i - 1 ELSE content[i][f]]]

(* Mutant of RemoveExcluded: the mask is not negated, so the excluded rows  *)
(* are the ones kept                                                       *)
RemoveExcludedKept(df, excl) ==
    IF excl.present /\ Cardinality(excl.ids) > 0
    THEN SelectSeq(df, LAMBDA row : row["ImageID"] \in excl.ids)
    ELSE df

(* line 259-260: rows whose ImageID is excluded are removed, when          *)
(* exclusion_ids is neither None nor empty                                 *)
RemoveExcluded(df, excl) ==
    IF excl.present /\ Cardinality(excl.ids) > 0
    THEN SelectSeq(df, LAMBDA row : row["ImageID"] \notin excl.ids)
    ELSE df

(* Mutant of RejectLoop: the rows where the field is 1 are dropped, so a    *)
(* row whose flag is -1 is kept                                            *)
RECURSIVE RejectLoopNotOne(_, _)
RejectLoopNotOne(df, fields) ==
    IF fields = <<>>
    THEN df
    ELSE RejectLoopNotOne(SelectSeq(df, LAMBDA row : row[Head(fields)] # 1), Tail(fields))

(* lines 263-264: one pass per reject field, keeping the rows where it is 0 *)
RECURSIVE RejectLoop(_, _)
RejectLoop(df, fields) ==
    IF fields = <<>>
    THEN df
    ELSE RejectLoop(SelectSeq(df, LAMBDA row : row[Head(fields)] = 0), Tail(fields))

(* DataFrame.drop(columns, axis=1) *)
DropColumns(df, columns) ==
    [i \in DOMAIN df |-> [f \in (DOMAIN df[i]) \ columns |-> df[i][f]]]

(* The elements of a set of numbers, in increasing order *)
RECURSIVE SortedSeq(_)
SortedSeq(S) ==
    IF S = {}
    THEN <<>>
    ELSE LET m == CHOOSE x \in S : \A y \in S : x <= y
         IN  <<m>> \o SortedSeq(S \ {m})

(* df.groupby(by): by is a Series holding the ImageID of each index label;  *)
(* pandas aligns it to df's index.  The groups are keyed by the values      *)
(* that occur, in sorted order, each holding its rows in table order.       *)
GroupBy(df, by) ==
    LET key(row) == by[row["index"]]
        keys == SortedSeq({key(df[i]) : i \in DOMAIN df})
    IN  [k \in DOMAIN keys |->
            << keys[k], SelectSeq(df, LAMBDA row : key(row) = keys[k]) >>]

(* Mutant of LabelGroups: the rows are not filtered by LabelName *)
LabelGroupsAllRows(df_images, class_code) ==
    LET by == [ix \in {df_images[i]["index"] : i \in DOMAIN df_images} |->
                  LET i == CHOOSE j \in DOMAIN df_images : df_images[j]["index"] = ix
                  IN  df_images[i]["ImageID"]]
    IN  GroupBy(DropColumns(df_images, {"LabelName"}), by)

(* lines 285-293: the groups of one class code *)
LabelGroups(df_images, class_code) ==
    LET df_label_images ==
            DropColumns(SelectSeq(df_images, LAMBDA row : row["LabelName"] = class_code),
                        {"LabelName"})
        by == [ix \in {df_images[i]["index"] : i \in DOMAIN df_images} |->
                  LET i == CHOOSE j \in DOMAIN df_images : df_images[j]["index"] = ix
                  IN  df_images[i]["ImageID"]]
    IN  GroupBy(df_label_images, by)

(* lines 256-296 after a 200 response: dict class_label -> groups *)
bounding_boxes(content, codes, excl) ==
    LET df_images ==
            DropColumns(RejectLoop(RemoveExcluded(ReadCsv(content), excl), RejectFields),
                        unnecessary_columns)
    IN  [i \in DOMAIN codes |-> << codes[i][1], LabelGroups(df_images, codes[i][2]) >>]

(* bbox_groups.groups.keys() *)
GroupKeys(bbox_groups) == [k \in DOMAIN bbox_groups |-> bbox_groups[k][1]]

(* bbox_groups.get_group(image_id)[['XMin', 'XMax', 'YMin', 'YMax']].values.tolist() *)
GroupBoxes(bbox_groups, image_id) ==
    LET rows == DictGet(bbox_groups, image_id)
    IN  [i \in DOMAIN rows |->
            << rows[i]["XMin"], rows[i]["XMax"], rows[i]["YMin"], rows[i]["YMax"] >>]

(* Mutant of BoundingBoxes: a status other than 200 is answered by         *)
(* fetching again                                                          *)
BoundingBoxesRetry(Responses) ==
    /\ pc = "bounding_boxes"
    /\ \E r \in Responses :
         /\ response' = r
         /\ fetches' = [fetches EXCEPT ![Splits[split_idx]] = @ + 1]
         /\ IF r.status_code # 200
            THEN UNCHANGED << label_bbox_groups, class_idx, pc, raised >>
            ELSE /\ label_bbox_groups' =
                        bounding_boxes(r.content, label_codes, exclusion_ids)
                 /\ class_idx' = 1
                 /\ pc' = "download_images"
                 /\ UNCHANGED raised
    /\ UNCHANGED << class_labels, annotation_format, df_classes, label_codes,
                    dirs, exclusion_ids, split_idx, tasks, next_result,
                    image_files, annotation_files, stages >>

(* download_dataset line 102: the fetch of the split's table (lines        *)
(* 248-255), which raises ValueError on a status other than 200            *)
BoundingBoxes(Responses) ==
    /\ pc = "bounding_boxes"
    /\ \E r \in Responses :
         /\ response' = r
         /\ fetches' = [fetches EXCEPT ![Splits[split_idx]] = @ + 1]
         /\ IF r.status_code # 200
            THEN /\ raised' = "ValueError"
                 /\ pc' = "raised"
                 /\ UNCHANGED << label_bbox_groups, class_idx >>
            ELSE /\ label_bbox_groups' =
                        bounding_boxes(r.content, label_codes, exclusion_ids)
                 /\ class_idx' = 1
                 /\ pc' = "download_images"
                 /\ UNCHANGED raised
    /\ UNCHANGED << class_labels, annotation_format, df_classes, label_codes,
                    dirs, exclusion_ids, split_idx, tasks, next_result,
                    image_files, annotation_files, stages >>

----------------------------------------------------------------------------
(* The executors.  A future holds the function and the arguments of its    *)
(* call, and its state: "pending", "running", "done", "raised" (with the    *)
(* exception in exc) or "cancelled".  Workers take the calls in order.      *)

max_workers == 10   \* ThreadPoolExecutor(max_workers=10)
cpu_count == 2      \* ProcessPoolExecutor(): one worker per CPU

Future(fn, class_label, image_id, bboxes) ==
    [fn |-> fn, class_label |-> class_label, image_id |-> image_id,
     bboxes |-> bboxes, state |-> "pending", exc |-> "none"]

Running(fs) == {i \in DOMAIN fs : fs[i].state = "running"}

(* A worker of a pool of n workers may take call i *)
CanStart(fs, i, n) ==
    /\ fs[i].state = "pending"
    /\ \A j \in 1..(i - 1) : fs[j].state # "pending"
    /\ Cardinality(Running(fs)) < n

Finished(fs) == \A i \in DOMAIN fs : fs[i].state \in {"done", "raised", "cancelled"}

(* Executor.map's result iterator raising at future r: its finally clause   *)
(* cancels the futures not yet yielded; only a pending future can be        *)
(* cancelled.                                                              *)
CancelRest(fs, r) ==
    [i \in DOMAIN fs |->
        IF i > r /\ fs[i].state = "pending"
        THEN [fs[i] EXCEPT !.state = "cancelled"]
        ELSE fs[i]]

CurrentSplit == Splits[split_idx]
CurrentLabel == DictKeys(label_codes)[class_idx]
CurrentGroups == DictGet(label_bbox_groups, CurrentLabel)

(* list(tqdm(executor.map(...))): the main thread takes the results in      *)
(* submission order; the first future that raised ends the iteration with   *)
(* its exception, and the rest is cancelled.                                *)
MapResult(at, exit) ==
    /\ pc = at
    /\ IF next_result > Len(tasks)
       THEN /\ pc' = exit
            /\ UNCHANGED << tasks, next_result, raised >>
       ELSE \/ /\ tasks[next_result].state = "done"
               /\ next_result' = next_result + 1
               /\ UNCHANGED << tasks, pc, raised >>
            \/ /\ tasks[next_result].state = "raised"
               /\ raised' = tasks[next_result].exc
               /\ tasks' = CancelRest(tasks, next_result)
               /\ pc' = exit
               /\ UNCHANGED next_result
    /\ UNCHANGED << class_labels, annotation_format, df_classes, label_codes,
                    dirs, exclusion_ids, split_idx, class_idx, response,
                    label_bbox_groups, image_files, annotation_files, fetches,
                    stages >>

----------------------------------------------------------------------------
(* download_images and download_image *)

ImagePath(class_label, image_id) == << class_label, "images", image_id >>

(* A file f with path p written: created or overwritten *)
WriteFile(files, p, content) ==
    [q \in DOMAIN files \cup {p} |-> IF q = p THEN content ELSE files[q]]

EmptyFile == [kind |-> "empty", width |-> 0, height |-> 0, layers |-> 0]

(* lines 149-165: the executor is opened and one call per image ID submitted *)
DownloadImages ==
    /\ pc = "download_images"
    /\ LET image_ids == GroupKeys(CurrentGroups)
       IN  tasks' = [i \in DOMAIN image_ids |->
                        Future("download_image", CurrentLabel, image_ids[i], <<>>)]
    /\ next_result' = 1
    /\ stages' = stages \cup { << "download", CurrentSplit, CurrentLabel >> }
    /\ pc' = "download_map"
    /\ UNCHANGED << class_labels, annotation_format, raised, df_classes,
                    label_codes, dirs, exclusion_ids, split_idx, class_idx,
                    response, label_bbox_groups, image_files, annotation_files,
                    fetches >>

(* download_image line 379: a worker thread opens dest_file_path for writing *)
DownloadOpen ==
    /\ pc \in {"download_map", "download_exit"}
    /\ \E i \in DOMAIN tasks :
         /\ CanStart(tasks, i, max_workers)
         /\ tasks' = [tasks EXCEPT ![i].state = "running"]
         /\ image_files' =
                WriteFile(image_files, ImagePath(tasks[i].class_label, tasks[i].image_id),
                          EmptyFile)
    /\ UNCHANGED << class_labels, annotation_format, pc, raised, df_classes,
                    label_codes, dirs, exclusion_ids, split_idx, class_idx,
                    response, label_bbox_groups, next_result, annotation_files,
                    fetches, stages >>

(* download_image lines 380-384: download_fileobj writes the object of the  *)
(* bucket into the open file, or raises ClientError when there is none      *)
DownloadFileobj(Blobs) ==
    /\ pc \in {"download_map", "download_exit"}
    /\ \E i \in Running(tasks) : \E blob \in Blobs :
         IF blob.kind = "missing"
         THEN /\ tasks' = [tasks EXCEPT ![i].state = "raised", ![i].exc = "ClientError"]
              /\ UNCHANGED image_files
         ELSE /\ tasks' = [tasks EXCEPT ![i].state = "done"]
              /\ image_files' =
                     WriteFile(image_files, ImagePath(tasks[i].class_label, tasks[i].image_id),
                               blob)
    /\ UNCHANGED << class_labels, annotation_format, pc, raised, df_classes,
                    label_codes, dirs, exclusion_ids, split_idx, class_idx,
                    response, label_bbox_groups, next_result, annotation_files,
                    fetches, stages >>

DownloadResult == MapResult("download_map", "download_exit")

(* The end of the with block: shutdown(wait=True), then the exception of    *)
(* the iteration, if any, leaves download_images and download_dataset      *)
DownloadExit ==
    /\ pc = "download_exit"
    /\ Finished(tasks)
    /\ pc' = IF raised = "none" THEN "build_annotations" ELSE "raised"
    /\ UNCHANGED << class_labels, annotation_format, raised, df_classes,
                    label_codes, dirs, exclusion_ids, split_idx, class_idx,
                    response, label_bbox_groups, tasks, next_result,
                    image_files, annotation_files, fetches, stages >>

----------------------------------------------------------------------------
(* to_pascal, build_annotation and build_annotations *)

DenBits == 2
Den == 2 ^ DenBits      \* a normalized coordinate n stands for n / Den

Max(a, b) == IF a >= b THEN a ELSE b
Min(a, b) == IF a <= b THEN a ELSE b

(* int(n / d) for d > 0: truncation toward zero *)
TruncDiv(n, d) == IF n >= 0 THEN n \div d ELSE -((-n) \div d)

(* int(coordinate * size), the coordinate being c / Den *)
Pixel(c, size) == TruncDiv(c * size, Den)

(* lines 360 and 364 *)
PixelMin(c, size) == Max(0, Pixel(c, size))

(* Mutant of PixelMax: the bound is clamped to size, not to size - 1 *)
PixelMaxToSize(c, size) == Min(size, Pixel(c, size))

(* lines 362 and 366 *)
PixelMax(c, size) == Min(size - 1, Pixel(c, size))

(* lines 349-366: the object of one bbox = [XMin, XMax, YMin, YMax] *)
PascalObject(bbox, label, img_width, img_height) ==
    [name |-> label, pose |-> "Unspecified", truncated |-> 0, difficult |-> 0,
     xmin |-> PixelMin(bbox[1], img_width),
     xmax |-> PixelMax(bbox[2], img_width),
     ymin |-> PixelMin(bbox[3], img_height),
     ymax |-> PixelMax(bbox[4], img_height)]

AnnotationPath(class_label, format, image_id) == << class_label, format, image_id >>

(* lines 320-373.  Image.open raises FileNotFoundError for no file and      *)
(* UnidentifiedImageError for a file that is no image; otherwise the XML    *)
(* document is written to pascal_dir.                                      *)
to_pascal(bboxes, label, image_id, images, format) ==
    LET image_path == ImagePath(label, image_id)
    IN  IF image_path \notin DOMAIN images
        THEN [exc |-> "FileNotFoundError", written |-> {}]
        ELSE IF images[image_path].kind # "jpeg"
        THEN [exc |-> "UnidentifiedImageError", written |-> {}]
        ELSE LET image == images[image_path]
                 annotation ==
                     [folder |-> "images", filename |-> image_id,
                      database |-> "OpenImages",
                      width |-> image.width, height |-> image.height,
                      depth |-> image.layers, segmented |-> 0,
                      objects |-> [i \in DOMAIN bboxes |->
                          PascalObject(bboxes[i], label, image.width, image.height)]]
             IN  [exc |-> "none",
                  written |-> { << AnnotationPath(label, format, image_id), annotation >> }]

(* Mutant of build_annotation: the "darknet" branch writes the PASCAL file *)
build_annotation_darknet(arguments, images) ==
    IF arguments.annotation_format \in {"pascal", "darknet"}
    THEN to_pascal(arguments.bboxes, arguments.class_label, arguments.image_id,
                   images, arguments.annotation_format)
    ELSE [exc |-> "none", written |-> {}]

(* lines 207-227: only "pascal" does anything *)
build_annotation(arguments, images) ==
    IF arguments.annotation_format = "pascal"
    THEN to_pascal(arguments.bboxes, arguments.class_label, arguments.image_id,
                   images, arguments.annotation_format)
    ELSE IF arguments.annotation_format = "darknet"
    THEN [exc |-> "none", written |-> {}]
    ELSE [exc |-> "none", written |-> {}]

(* lines 179-203: the executor is opened and one call per image ID          *)
(* submitted, with the boxes of the image's group                          *)
BuildAnnotations ==
    /\ pc = "build_annotations"
    /\ LET image_ids == GroupKeys(CurrentGroups)
       IN  tasks' = [i \in DOMAIN image_ids |->
                        Future("build_annotation", CurrentLabel, image_ids[i],
                               GroupBoxes(CurrentGroups, image_ids[i]))]
    /\ next_result' = 1
    /\ stages' = stages \cup { << "build", CurrentSplit, CurrentLabel >> }
    /\ pc' = "build_map"
    /\ UNCHANGED << class_labels, annotation_format, raised, df_classes,
                    label_codes, dirs, exclusion_ids, split_idx, class_idx,
                    response, label_bbox_groups, image_files, annotation_files,
                    fetches >>

(* A worker process takes the next call *)
BuildStart ==
    /\ pc \in {"build_map", "build_exit"}
    /\ \E i \in DOMAIN tasks :
         /\ CanStart(tasks, i, cpu_count)
         /\ tasks' = [tasks EXCEPT ![i].state = "running"]
    /\ UNCHANGED << class_labels, annotation_format, pc, raised, df_classes,
                    label_codes, dirs, exclusion_ids, split_idx, class_idx,
                    response, label_bbox_groups, next_result, image_files,
                    annotation_files, fetches, stages >>

(* The worker process runs build_annotation on its arguments *)
BuildAnnotation ==
    /\ pc \in {"build_map", "build_exit"}
    /\ \E i \in Running(tasks) :
         LET arguments == [annotation_format |-> annotation_format,
                           bboxes |-> tasks[i].bboxes,
                           class_label |-> tasks[i].class_label,
                           image_id |-> tasks[i].image_id]
             r == build_annotation(arguments, image_files)
         IN  /\ tasks' = [tasks EXCEPT
                            ![i].state = IF r.exc = "none" THEN "done" ELSE "raised",
                            ![i].exc = r.exc]
             /\ annotation_files' =
                    [q \in DOMAIN annotation_files \cup {w[1] : w \in r.written} |->
                        IF \E w \in r.written : w[1] = q
                        THEN (CHOOSE w \in r.written : w[1] = q)[2]
                        ELSE annotation_files[q]]
    /\ UNCHANGED << class_labels, annotation_format, pc, raised, df_classes,
                    label_codes, dirs, exclusion_ids, split_idx, class_idx,
                    response, label_bbox_groups, next_result, image_files,
                    fetches, stages >>

BuildResult == MapResult("build_map", "build_exit")

(* Mutant of BuildExit: the table of the split is fetched again for the    *)
(* next class, as with the bounding_boxes call inside the class loop       *)
BuildExitRefetch ==
    /\ pc = "build_exit"
    /\ Finished(tasks)
    /\ IF raised # "none"
       THEN /\ pc' = "raised"
            /\ UNCHANGED << class_idx, split_idx >>
       ELSE IF class_idx < Len(label_codes)
       THEN /\ class_idx' = class_idx + 1
            /\ pc' = "bounding_boxes"
            /\ UNCHANGED split_idx
       ELSE IF split_idx < Len(Splits)
       THEN /\ split_idx' = split_idx + 1
            /\ pc' = "bounding_boxes"
            /\ UNCHANGED class_idx
       ELSE /\ pc' = "done"
            /\ UNCHANGED << class_idx, split_idx >>
    /\ UNCHANGED << class_labels, annotation_format, raised, df_classes,
                    label_codes, dirs, exclusion_ids, response,
                    label_bbox_groups, tasks, next_result, image_files,
                    annotation_files, fetches, stages >>

(* The end of the with block of build_annotations, and lines 98 and 104:    *)
(* the next class of the split, the next split, or the return              *)
BuildExit ==
    /\ pc = "build_exit"
    /\ Finished(tasks)
    /\ IF raised # "none"
       THEN /\ pc' = "raised"
            /\ UNCHANGED << class_idx, split_idx >>
       ELSE IF class_idx < Len(label_codes)
       THEN /\ class_idx' = class_idx + 1
            /\ pc' = "download_images"
            /\ UNCHANGED split_idx
       ELSE IF split_idx < Len(Splits)
       THEN /\ split_idx' = split_idx + 1
            /\ pc' = "bounding_boxes"
            /\ UNCHANGED class_idx
       ELSE /\ pc' = "done"
            /\ UNCHANGED << class_idx, split_idx >>
    /\ UNCHANGED << class_labels, annotation_format, raised, df_classes,
                    label_codes, dirs, exclusion_ids, response,
                    label_bbox_groups, tasks, next_result, image_files,
                    annotation_files, fetches, stages >>

----------------------------------------------------------------------------
(* The inputs of the model *)

(* Rows <<code, label>> of class description tables *)
ClassRows == Codes \X Labels
AllClassTables == SeqsUpTo(ClassRows, MaxRows) \ { <<>> }
AllLabelLists == SeqsUpTo(RequestLabels, MaxLabels) \ { <<>> }

(* The table of the pipeline runs *)
OneClassTable == << << "/m/0bt9lr", "Dog" >>, << "/m/01yrx", "Cat" >> >>

(* A row of a bounding-box table; fv holds the five flags in the order of   *)
(* RejectFields, box is [XMin, XMax, YMin, YMax]                           *)
Record(id, code, fv, box) ==
    [ImageID |-> id, LabelName |-> code,
     XMin |-> box[1], XMax |-> box[2], YMin |-> box[3], YMax |-> box[4],
     IsOccluded |-> fv[1], IsTruncated |-> fv[2], IsGroupOf |-> fv[3],
     IsDepiction |-> fv[4], IsInside |-> fv[5],
     Source |-> "xclick", Confidence |-> 1]

NoFlags == << 0, 0, 0, 0, 0 >>

(* No flag, each single flag, all five flags, and an unknown (-1) flag *)
FlagVecs ==
    { NoFlags, << 1, 0, 0, 0, 0 >>, << 0, 1, 0, 0, 0 >>, << 0, 0, 1, 0, 0 >>,
      << 0, 0, 0, 1, 0 >>, << 0, 0, 0, 0, 1 >>, << 1, 1, 1, 1, 1 >>,
      << 0, 0, 0, -1, 0 >> }

Coords == 0..Den
AllBoxes == Coords \X Coords \X Coords \X Coords
WholeBox == << 0, Den, 0, Den >>
HalfBox == << 1, Den \div 2, 0, Den - 1 >>

Ok(content) == [content |-> content, status_code |-> 200]
NotFound == [content |-> <<>>, status_code |-> 404]

AllRecords == { Record(id, code, fv, WholeBox) :
                    id \in ImageIDs, code \in Codes, fv \in FlagVecs }
AllResponses == { Ok(t) : t \in SeqsUpTo(AllRecords, MaxRecs) } \cup { NotFound }
AllExclusions == { None } \cup { SetOf(S) : S \in SUBSET ImageIDs }

Jpeg(w, h) == [kind |-> "jpeg", width |-> w, height |-> h, layers |-> 3]
Corrupt == [kind |-> "corrupt", width |-> 0, height |-> 0, layers |-> 0]
Missing == [kind |-> "missing", width |-> 0, height |-> 0, layers |-> 0]

Init(LabelLists, Formats) ==
    /\ class_labels \in LabelLists
    /\ annotation_format \in Formats
    /\ pc = "class_label_codes"
    /\ raised = "none"
    /\ df_classes = <<>>
    /\ label_codes = <<>>
    /\ dirs = {}
    /\ exclusion_ids = None
    /\ split_idx = 0
    /\ class_idx = 0
    /\ response = [content |-> <<>>, status_code |-> 0]
    /\ label_bbox_groups = <<>>
    /\ tasks = <<>>
    /\ next_result = 0
    /\ image_files = <<>>
    /\ annotation_files = <<>>
    /\ fetches = [u \in {ClassesUrl} \cup {Splits[i] : i \in DOMAIN Splits} |-> 0]
    /\ stages = {}

----------------------------------------------------------------------------
(* SpecLabels: download_dataset up to the first bounding-box fetch, on      *)
(* every class description table and every list of labels                  *)

InitLabels == Init(AllLabelLists, {"pascal"})
NextLabels ==
    \/ ClassLabelCodes(AllClassTables)
    \/ MakeDirs
    \/ ReadExclusions({None})
    \/ BoundingBoxes({Ok(<<>>), NotFound})
SpecLabels == InitLabels /\ [][NextLabels]_vars

----------------------------------------------------------------------------
(* SpecBoxes: download_dataset up to the bounding_boxes call of the first   *)
(* split, on every bounding-box table and every exclusion set              *)

InitBoxes == Init({ << "Dog" >>, << "Dog", "Cat" >>, << "Cat", "Fox" >> }, {"pascal"})
NextBoxes ==
    \/ ClassLabelCodes({OneClassTable})
    \/ MakeDirs
    \/ ReadExclusions(AllExclusions)
    \/ BoundingBoxes(AllResponses)
SpecBoxes == InitBoxes /\ [][NextBoxes]_vars

----------------------------------------------------------------------------
(* SpecPascal: download_dataset for one class and the first split, whose    *)
(* table holds one record, on every box and every image size               *)

Sizes == (1..MaxSize) \cup {100}
PascalResponses == { Ok(<< Record(1, "/m/0bt9lr", NoFlags, box) >>) : box \in AllBoxes }
PascalBlobs == { Jpeg(w, h) : w \in Sizes, h \in Sizes } \cup { Corrupt, Missing }

InitPascal == Init({ << "Dog" >> }, {"pascal"})
NextPascal ==
    \/ ClassLabelCodes({OneClassTable})
    \/ MakeDirs
    \/ ReadExclusions({None})
    \/ split_idx = 1 /\ BoundingBoxes(PascalResponses)
    \/ DownloadImages
    \/ DownloadOpen
    \/ DownloadFileobj(PascalBlobs)
    \/ DownloadResult
    \/ DownloadExit
    \/ BuildAnnotations
    \/ BuildStart
    \/ BuildAnnotation
    \/ BuildResult
    \/ BuildExit
SpecPascal == InitPascal /\ [][NextPascal]_vars

----------------------------------------------------------------------------
(* Spec: whole runs of download_dataset *)

Formats == { "pascal", "darknet", "coco", "kitti", "tfrecord" }

RunTables ==
    { << Record(1, "/m/0bt9lr", NoFlags, WholeBox),
         Record(2, "/m/0bt9lr", NoFlags, HalfBox),
         Record(1, "/m/0bt9lr", NoFlags, HalfBox) >>,
      << Record(1, "/m/0bt9lr", << 1, 0, 0, 0, 0 >>, WholeBox),
         Record(2, "/m/01yrx", NoFlags, WholeBox) >> }
RunResponses == { Ok(t) : t \in RunTables } \cup { NotFound }
RunExclusions == { None, SetOf({}), SetOf({1}) }
RunBlobs == { Jpeg(2, 3), Corrupt, Missing }

InitRun == Init({ << "Dog" >>, << "Dog", "Cat" >>, << "Fox" >> }, Formats)
Next ==
    \/ ClassLabelCodes({OneClassTable})
    \/ MakeDirs
    \/ ReadExclusions(RunExclusions)
    \/ BoundingBoxes(RunResponses)
    \/ DownloadImages
    \/ DownloadOpen
    \/ DownloadFileobj(RunBlobs)
    \/ DownloadResult
    \/ DownloadExit
    \/ BuildAnnotations
    \/ BuildStart
    \/ BuildAnnotation
    \/ BuildResult
    \/ BuildExit
Spec == InitRun /\ [][Next]_vars

----------------------------------------------------------------------------
(* Claims about the executors *)

(* download_images has left its with block: returned, or raised *)
DownloadLeft ==
    /\ pc \notin {"download_map", "download_exit"}
    /\ tasks # <<>>
    /\ \A i \in DOMAIN tasks : tasks[i].fn = "download_image"

(* C1: a failed download does not abort the batch.  Whenever               *)
(* download_images is left, it has returned normally, and every image of   *)
(* the batch whose own download did not fail has been downloaded to        *)
(* <images_dir>/<imageID>.jpg.                                             *)
C1_DownloadFailureContained ==
    DownloadLeft =>
        /\ pc # "raised"
        /\ \A i \in DOMAIN tasks :
              tasks[i].state # "raised" =>
                 /\ tasks[i].state = "done"
                 /\ ImagePath(tasks[i].class_label, tasks[i].image_id) \in DOMAIN image_files
                 /\ image_files[ImagePath(tasks[i].class_label, tasks[i].image_id)].kind
                        # "empty"

(* build_annotations has left its with block: returned, or raised *)
BuildLeft ==
    /\ pc \notin {"build_map", "build_exit"}
    /\ tasks # <<>>
    /\ \A i \in DOMAIN tasks : tasks[i].fn = "build_annotation"

Unreadable(class_label, image_id) ==
    \/ ImagePath(class_label, image_id) \notin DOMAIN image_files
    \/ image_files[ImagePath(class_label, image_id)].kind # "jpeg"

(* C2: with format "pascal", an image whose file is absent or unreadable   *)
(* is skipped.  Whenever build_annotations is left, it has returned        *)
(* normally, and the annotation of every image of the batch that is        *)
(* readable has been written.                                              *)
C2_MissingImageSkipped ==
    (annotation_format = "pascal" /\ BuildLeft) =>
        /\ pc # "raised"
        /\ \A i \in DOMAIN tasks :
              \/ Unreadable(tasks[i].class_label, tasks[i].image_id)
              \/ AnnotationPath(tasks[i].class_label, annotation_format, tasks[i].image_id)
                    \in DOMAIN annotation_files

----------------------------------------------------------------------------
(* Claims about bounding_boxes *)

(* bounding_boxes has returned the groups of the last response *)
Grouped == response.status_code = 200 /\ pc \notin {"bounding_boxes", "raised"}

(* The rows of the fetched table, numbered from 1; row i has index i - 1 *)
Table == response.content

Flagged(rec) == \E k \in DOMAIN RejectFields : rec[RejectFields[k]] # 0

Excluded(rec) == exclusion_ids.present /\ rec["ImageID"] \in exclusion_ids.ids

(* The table rows that are in the group of image_id of the groups of a label *)
RowsOfGroup(group) == { group[2][j]["index"] + 1 : j \in DOMAIN group[2] }

RowsGrouped(bbox_groups) ==
    UNION { RowsOfGroup(bbox_groups[g]) : g \in DOMAIN bbox_groups }

AllRowsGrouped ==
    UNION { RowsGrouped(label_bbox_groups[k][2]) : k \in DOMAIN label_bbox_groups }

(* C3: a record with any of the five flags non-zero is in no group of any  *)
(* class label.                                                            *)
C3_FlaggedRecordsDropped ==
    Grouped => \A i \in DOMAIN Table : Flagged(Table[i]) => i \notin AllRowsGrouped

(* Witness of C3: a flagged record of a requested class, not excluded, is   *)
(* in the table, and another record of the table is grouped.               *)
C3_Witness ==
    /\ Grouped
    /\ AllRowsGrouped # {}
    /\ \E i \in DOMAIN Table :
          /\ Flagged(Table[i])
          /\ ~Excluded(Table[i])
          /\ \E k \in DOMAIN label_codes : label_codes[k][2] = Table[i]["LabelName"]

(* The rows that survive for class code C *)
Surviving(C) ==
    { i \in DOMAIN Table :
        Table[i]["LabelName"] = C /\ ~Excluded(Table[i]) /\ ~Flagged(Table[i]) }

(* C5: for each class label L with code C, the group keys are exactly the   *)
(* ImageIDs with a surviving record of code C, and the group of each key    *)
(* holds exactly the surviving records of code C with that ImageID, each    *)
(* once and with its four coordinates.                                     *)
C5_GroupsAreTheSurvivors ==
    Grouped =>
      \A k \in DOMAIN label_bbox_groups :
        LET L == label_bbox_groups[k][1]
            groups == label_bbox_groups[k][2]
            S == Surviving(DictGet(label_codes, L))
        IN  /\ DictHas(label_codes, L)
            /\ { groups[g][1] : g \in DOMAIN groups } = { Table[i]["ImageID"] : i \in S }
            /\ \A g \in DOMAIN groups :
                  LET rows == groups[g][2]
                  IN  /\ RowsOfGroup(groups[g]) =
                            { i \in S : Table[i]["ImageID"] = groups[g][1] }
                      /\ Cardinality(RowsOfGroup(groups[g])) = Len(rows)
                      /\ \A j \in DOMAIN rows :
                            \A f \in {"XMin", "XMax", "YMin", "YMax"} :
                               rows[j][f] = Table[rows[j]["index"] + 1][f]
            /\ \A g, h \in DOMAIN groups : groups[g][1] = groups[h][1] => g = h

(* Witness of C5: two classes are requested, and the table has a record     *)
(* that survives and a record that does not.                               *)
C5_Witness ==
    /\ Grouped
    /\ Len(label_bbox_groups) = 2
    /\ AllRowsGrouped # {}
    /\ Cardinality(AllRowsGrouped) < Len(Table)


(* C4: with a non-empty exclusion set, no group of any label and split is   *)
(* keyed by an excluded ImageID, and no image of that ID is downloaded and  *)
(* no annotation of it written; with no exclusion set or an empty one, the  *)
(* exclusion step drops nothing: every unflagged record of a requested      *)
(* class is grouped.                                                       *)
C4_ExcludedImagesNeverProcessed ==
    /\ (exclusion_ids.present /\ exclusion_ids.ids # {}) =>
          \A id \in exclusion_ids.ids :
             /\ \A k \in DOMAIN label_bbox_groups :
                   \A g \in DOMAIN label_bbox_groups[k][2] :
                      label_bbox_groups[k][2][g][1] # id
             /\ \A i \in DOMAIN tasks : tasks[i].image_id # id
             /\ \A path \in DOMAIN image_files : path[3] # id
             /\ \A path \in DOMAIN annotation_files : path[3] # id
    /\ (Grouped /\ (~exclusion_ids.present \/ exclusion_ids.ids = {})) =>
          \A i \in DOMAIN Table :
             ( /\ ~Flagged(Table[i])
               /\ \E k \in DOMAIN label_codes : label_codes[k][2] = Table[i]["LabelName"] )
             => i \in AllRowsGrouped

(* Witness of C4: a run with exclusions has ended after the table of a      *)
(* split held an unflagged record of a requested class with an excluded    *)
(* ID, and the annotation of another image was written.                    *)
C4_Witness ==
    /\ pc = "done"
    /\ annotation_files # <<>>
    /\ exclusion_ids.present
    /\ \E i \in DOMAIN Table :
          /\ Excluded(Table[i])
          /\ ~Flagged(Table[i])
          /\ \E k \in DOMAIN label_codes : label_codes[k][2] = Table[i]["LabelName"]

----------------------------------------------------------------------------
(* Claims about the formats, the labels and the failed fetch *)

(* C7: with a format other than "pascal", no call of build_annotation       *)
(* raises, build_annotations raises nothing and no annotation file exists.  *)
C7_OtherFormatsDoNothing ==
    annotation_format # "pascal" =>
        /\ annotation_files = <<>>
        /\ \A i \in DOMAIN tasks :
              tasks[i].fn = "build_annotation" => tasks[i].state # "raised"
        /\ raised \notin {"FileNotFoundError", "UnidentifiedImageError"}

(* Witness of C7: a run with another format has ended, and the last batch   *)
(* built held an image that is unreadable.                                 *)
C7_Witness ==
    /\ annotation_format # "pascal"
    /\ pc = "done"
    /\ \E i \in DOMAIN tasks :
          /\ tasks[i].state = "done"
          /\ Unreadable(tasks[i].class_label, tasks[i].image_id)

(* The requested label of index i has a row in the description table *)
InTable(i) == \E r \in DOMAIN df_classes : df_classes[r][2] = class_labels[i]

(* The code of the first row of the table whose label is the label *)
FirstCode(label) ==
    df_classes[CHOOSE r \in DOMAIN df_classes :
                  /\ df_classes[r][2] = label
                  /\ \A q \in 1..(r - 1) : df_classes[q][2] # label][1]

Resolved == pc # "class_label_codes"

(* C8: when a requested label has no verbatim row in the table,             *)
(* class_label_codes raises a lookup error (IndexError) and returns no      *)
(* mapping, and the run ends with no directory created, no bounding-box     *)
(* table fetched and nothing downloaded.                                   *)
C8_UnknownLabelAborts ==
    (Resolved /\ \E i \in DOMAIN class_labels : ~InTable(i)) =>
        /\ pc = "raised"
        /\ raised = "IndexError"
        /\ label_codes = <<>>
        /\ dirs = {}
        /\ \A i \in DOMAIN Splits : fetches[Splits[i]] = 0
        /\ image_files = <<>>
        /\ annotation_files = <<>>
        /\ stages = {}

(* Witness of C8: the first requested label is in the table and a later     *)
(* one is not, and the lookup has raised.                                  *)
C8_Witness ==
    /\ raised = "IndexError"
    /\ Len(class_labels) > 1
    /\ InTable(1)
    /\ \E i \in DOMAIN class_labels : ~InTable(i)

(* C9: when every requested label has a row in the table, the mapping       *)
(* returned holds, for each requested label, exactly one entry keyed by     *)
(* its lowercase form, whose code is that of the first row with that        *)
(* label.                                                                  *)
C9_OneCodePerLabel ==
    (Resolved /\ \A i \in DOMAIN class_labels : InTable(i)) =>
        /\ raised = "none"
        /\ \A i \in DOMAIN class_labels :
              /\ Cardinality({ k \in DOMAIN label_codes :
                                  label_codes[k][1] = Lower(class_labels[i]) }) = 1
              /\ DictGet(label_codes, Lower(class_labels[i])) = FirstCode(class_labels[i])

(* C10: the table of a split is fetched at most once; when the fetch        *)
(* fails, bounding_boxes raises, no download and no build of that split     *)
(* has been or is started, and from the fetch on no image file and no       *)
(* annotation file changes.                                                *)
C10_FailedFetchIsFatal ==
    /\ [](/\ \A i \in DOMAIN Splits : fetches[Splits[i]] <= 1
          /\ (response.status_code \notin {0, 200}) =>
                /\ pc = "raised"
                /\ raised = "ValueError"
                /\ fetches[CurrentSplit] = 1
                /\ \A st \in stages : st[2] # CurrentSplit)
    /\ [][(pc = "bounding_boxes" \/ raised = "ValueError") =>
             UNCHANGED << image_files, annotation_files, stages >>]_vars

(* Witness of C10: the fetch of a later split has failed after image and    *)
(* annotation files of an earlier split were written.                      *)
C10_Witness ==
    /\ raised = "ValueError"
    /\ split_idx > 1
    /\ image_files # <<>>
    /\ annotation_files # <<>>


----------------------------------------------------------------------------
(* Claims about to_pascal *)

(* floor(c / Den * size) for a coordinate c / Den *)
Floor(c, size) == (c * size) \div Den

(* The build call i has written its PASCAL file *)
Written(i) ==
    /\ annotation_format = "pascal"
    /\ tasks[i].fn = "build_annotation"
    /\ tasks[i].state = "done"

AnnotationOf(i) ==
    annotation_files[AnnotationPath(tasks[i].class_label, annotation_format,
                                    tasks[i].image_id)]

ImageOf(i) == image_files[ImagePath(tasks[i].class_label, tasks[i].image_id)]

----------------------------------------------------------------------------
(* Claims about the batches *)

(* The annotation paths of the build calls of the batch that have returned *)
PathsWritten ==
    { AnnotationPath(tasks[i].class_label, annotation_format, tasks[i].image_id) :
        i \in { j \in DOMAIN tasks : tasks[j].state = "done" } }

(* C11: with format "pascal", once build_annotations is left, every image   *)
(* of the batch whose file is a readable image has its own XML file, with   *)
(* one object per box of its group, and no more files were written than     *)
(* the batch has image groups.                                             *)
C11_OneFilePerPresentImage ==
    (annotation_format = "pascal" /\ BuildLeft) =>
        /\ \A i \in DOMAIN tasks :
              ~Unreadable(tasks[i].class_label, tasks[i].image_id) =>
                 LET path == AnnotationPath(tasks[i].class_label, annotation_format,
                                            tasks[i].image_id)
                 IN  /\ path \in DOMAIN annotation_files
                     /\ Len(annotation_files[path].objects) = Len(tasks[i].bboxes)
        /\ Cardinality(PathsWritten) <= Len(tasks)


(* A worker of the pool of fn has a call that is submitted and not finished *)
PoolActive(fn) ==
    \E i \in DOMAIN tasks :
       tasks[i].fn = fn /\ tasks[i].state \in {"pending", "running"}

(* The index of a split section in the order of the loop *)
SplitIndex(section) == CHOOSE i \in DOMAIN Splits : Splits[i] = section

(* The directories of every class label exist *)
AllDirsMade ==
    \A k \in DOMAIN label_codes :
       /\ << label_codes[k][1], "images" >> \in dirs
       /\ << label_codes[k][1], annotation_format >> \in dirs

(* C12: the stages of a run are ordered.  The class table is fetched at     *)
(* most once; the directories of every class exist before the table of the  *)
(* first split is fetched; the table of a split is fetched only after that  *)
(* of every earlier split, at most once (exactly once in a run that       *)
(* returns), and before any pool of the split is opened; the build pool of a (split, class) is opened only after its   *)
(* download pool; and when the main thread is in build_annotations no       *)
(* download call is pending or running, so the pools are never active      *)
(* together.                                                               *)
C12_StagesOrdered ==
    /\ fetches[ClassesUrl] <= 1
    /\ (pc # "class_label_codes") => fetches[ClassesUrl] = 1
    /\ (pc = "done") => \A i \in DOMAIN Splits : fetches[Splits[i]] = 1
    /\ \A i \in DOMAIN Splits :
          /\ fetches[Splits[i]] <= 1
          /\ fetches[Splits[i]] = 1 =>
                /\ AllDirsMade
                /\ \A j \in 1..(i - 1) : fetches[Splits[j]] = 1
                /\ i <= split_idx
    /\ \A st \in stages :
          /\ fetches[st[2]] = 1
          /\ SplitIndex(st[2]) <= split_idx
          /\ st[1] = "build" => << "download", st[2], st[3] >> \in stages
    /\ (pc \in {"build_annotations", "build_map", "build_exit"}) =>
          /\ ~PoolActive("download_image")
          /\ << "download", CurrentSplit, CurrentLabel >> \in stages
    /\ ~(PoolActive("download_image") /\ PoolActive("build_annotation"))

(* Witness of C12: a run over two classes has gone through the three        *)
(* splits, opening both pools for each class of each split, and has        *)
(* written image and annotation files.                                     *)
C12_Witness ==
    /\ pc = "done"
    /\ Len(label_codes) = 2
    /\ Cardinality(stages) = 12
    /\ image_files # <<>>
    /\ annotation_files # <<>>


(* C13: the image IDs of a batch are pairwise distinct, so no two calls of  *)
(* a batch have the same output path, and the files present after the     *)
(* batch do not depend on the order the workers ran in: once               *)
(* download_images is left every image of the batch has its .jpg file,     *)
(* and once build_annotations is left with format "pascal" every readable   *)
(* image of the batch has its .xml file.                                   *)
C13_BatchOrderIndependent ==
    /\ \A i, j \in DOMAIN tasks :
          i # j =>
             /\ tasks[i].image_id # tasks[j].image_id
             /\ ImagePath(tasks[i].class_label, tasks[i].image_id)
                   # ImagePath(tasks[j].class_label, tasks[j].image_id)
             /\ AnnotationPath(tasks[i].class_label, annotation_format, tasks[i].image_id)
                   # AnnotationPath(tasks[j].class_label, annotation_format,
                                    tasks[j].image_id)
    /\ DownloadLeft =>
          \A i \in DOMAIN tasks :
             ImagePath(tasks[i].class_label, tasks[i].image_id) \in DOMAIN image_files
    /\ (annotation_format = "pascal" /\ BuildLeft) =>
          \A i \in DOMAIN tasks :
             \/ Unreadable(tasks[i].class_label, tasks[i].image_id)
             \/ AnnotationPath(tasks[i].class_label, annotation_format, tasks[i].image_id)
                   \in DOMAIN annotation_files


----------------------------------------------------------------------------
(* C14: every object written by to_pascal is a well-formed pixel box inside *)
(* the image: for a box with 0 <= XMin <= XMax <= 1 and                     *)
(* 0 <= YMin <= YMax <= 1 on an image of width W and height H, the written  *)
(* values satisfy 0 <= xmin <= xmax <= W - 1 and 0 <= ymin <= ymax <= H - 1. *)
C14_ObjectsInsideImage ==
    \A i \in DOMAIN tasks :
      Written(i) =>
        LET W == ImageOf(i).width
            H == ImageOf(i).height
            objects == AnnotationOf(i).objects
        IN  \A j \in DOMAIN objects :
               LET bbox == tasks[i].bboxes[j]
                   o == objects[j]
               IN  (bbox[1] <= bbox[2] /\ bbox[3] <= bbox[4]) =>
                      /\ 0 <= o.xmin /\ o.xmin <= o.xmax /\ o.xmax <= W - 1
                      /\ 0 <= o.ymin /\ o.ymin <= o.ymax /\ o.ymax <= H - 1

====
